---- MODULE Spec2Model ----
(***************************************************************************)
(* SyncOnceCell (src/libstd/lazy.rs): the control word state_and_queue,    *)
(* the storage slot, the intrusive queue of stack-allocated Waiter nodes,  *)
(* and the threads that call get, set, get_or_init and get_or_try_init.    *)
(* Every atomic access of the control word, of a node's signaled flag and  *)
(* of the slot is one step of the calling thread.                          *)
(***************************************************************************)
EXTENDS Integers, FiniteSets, Sequences, TLC

\* Bounds of the model: the threads, the calls they make in all, and the
\* number of invocations on which the flaky computation fails.
NumThreads == 3
MaxCalls == 2
FailFirst == 1

\* lazy.rs 382-386.
INCOMPLETE == 0
RUNNING == 1
COMPLETE == 2
STATE_MASK == 3

\* A null *const Waiter, and None for Option<Thread>.
Null == 0
\* MaybeUninit::uninit(): the slot holds no value.
Uninit == 0

Threads == 1..NumThreads

\* state_and_queue & STATE_MASK
Tag(w) == w % (STATE_MASK + 1)
\* state_and_queue & !STATE_MASK
Ptr(w) == w - (w % (STATE_MASK + 1))
\* &node as *const Waiter as usize: thread t's node lives in t's frame of
\* wait(), 4-aligned (repr(align(4))), so its low two bits are free.
Addr(t) == t * (STATE_MASK + 1)
\* The thread in whose frame the node at address p lives.
Owner(p) == p \div (STATE_MASK + 1)

\* No node in the frame (before wait() builds it, after wait() returns).
NoWaiter == [live |-> FALSE, thread |-> Null, signaled |-> FALSE, next |-> Null]
\* A node that is linked in front of itself.
NewWaiterSelf(t, current_state) ==
    [live |-> TRUE, thread |-> t, signaled |-> FALSE, next |-> Addr(t)]
\* Waiter { thread: Some(current), signaled: false, next: current_state & !MASK }
NewWaiter(t, current_state) ==
    [live |-> TRUE, thread |-> t, signaled |-> FALSE, next |-> Ptr(current_state)]

\* The calls a thread can make and the computation f it passes: set's
\* closure returns set's argument ("value"); "any" is a closure whose result
\* is decided when it runs; "flaky" fails on the first FailFirst invocations.
GeneralCalls ==
    {[kind |-> "get", f |-> "none"], [kind |-> "set", f |-> "value"],
     [kind |-> "get_or_init", f |-> "any"], [kind |-> "get_or_try_init", f |-> "any"]}
InitCall == [kind |-> "get_or_init", f |-> "any"]
\* get_or_init with the flaky computation, which fails by panicking.
PanicCall == [kind |-> "get_or_init", f |-> "flaky"]
\* get_or_init with a computation that returns a value.
ReturnCall == [kind |-> "get_or_init", f |-> "returns"]
\* Readers and initializers of one cell.
QueueCalls == {[kind |-> "get", f |-> "none"], ReturnCall}
FlakyCall == [kind |-> "get_or_try_init", f |-> "flaky"]
\* SyncLazy::force (567-572): get_or_init on the lazy's own cell, with the
\* closure that takes the wrapped computation out of SyncLazy.init.
LazyCall == [kind |-> "force", f |-> "lazy"]
NoCall == [kind |-> "none", f |-> "none"]

NoRet == [kind |-> "NoRet", v |-> 0]
NoWq == [to |-> INCOMPLETE, queue |-> Null, thread |-> Null]
NoHist ==
    [runs |-> 0, fails |-> 0, produced |-> {}, writes |-> 0,
     badRead |-> FALSE, uaf |-> FALSE, readAssert |-> FALSE,
     dropAssert |-> FALSE, waitAssert |-> FALSE, unwrapNone |-> FALSE,
     wrapped |-> 0, takeRace |-> FALSE,
     aborted |-> {}, pending |-> FALSE, heir |-> Null, order |-> <<>>]

VARIABLES
    state_and_queue,  \* SyncOnceCell.state_and_queue
    value,            \* SyncOnceCell.value: Uninit or the value written
    waiter,           \* waiter[t]: the Waiter node in t's frame of wait()
    token,            \* token[t]: t's park token (set by unpark)
    pc,               \* pc[t]: where thread t is
    op,               \* op[t]: the call t is making
    calls,            \* calls[t]: calls t has made
    cur,              \* cur[t]: initialize_inner's state_and_queue, wait's current_state
    wq,               \* wq[t]: t's WaiterQueue guard and the locals of its drop
    res,              \* res[t]: initialize's res, "ok", "err" or "panic"
    ran,              \* ran[t]: f was taken and run in this call
    ret,              \* ret[t]: what t's last call returned
    atCall,           \* atCall[t]: the control word, the slot and the attempt
                      \* under way when t's call began
    init,             \* SyncLazy.init: TRUE while it holds Some(f)
    outer,            \* outer[t]: the call whose computation t is inside, if it re-entered
    h                 \* history: what has run, been written and gone wrong

vars == <<state_and_queue, value, waiter, token, pc, op, calls, cur, wq, res,
          ran, ret, atCall, init, outer, h>>

\* The threads whose nodes are linked from p on, following next, in that
\* order; n bounds the walk.
RECURSIVE Queue(_, _)
Queue(p, n) ==
    IF p = Null \/ n = 0 THEN <<>>
    ELSE <<Owner(p)>> \o Queue(waiter[Owner(p)].next, n - 1)

\* The same, as a set.
Queued(p) == {Queue(p, NumThreads)[i] : i \in 1..Len(Queue(p, NumThreads))}

\* The attempts to initialize the cell that are over: an attempt begins with
\* the INCOMPLETE -> RUNNING CAS (431), runs its computation (343) and ends
\* with the swap of WaiterQueue::drop (403), so every computation run is an
\* attempt that is over except the one whose thread has yet to swap.
Finished ==
    h.runs - (IF \E u \in Threads : pc[u] \in {"write", "drop_swap"} THEN 1 ELSE 0)

\* Of those, the attempts that failed: the swap put INCOMPLETE back.
Failed ==
    h.fails - (IF \E u \in Threads : pc[u] = "drop_swap" /\ res[u] # "ok" THEN 1 ELSE 0)

\* What a call finds when it begins: the word, the slot, and which attempt is
\* under way (the first, the second, ...; 0 when the word is not RUNNING).
AtCall ==
    [word |-> state_and_queue, value |-> value,
     attempt |-> IF Tag(state_and_queue) = RUNNING THEN Finished + 1 ELSE 0]

\* The value t's computation (or t's set) supplies in its current call, which
\* is also the failure value it returns: every call has its own.
ValueOf(t) == t + NumThreads * (calls[t] - 1)

\* The calls made so far by the threads of S.
RECURSIVE Made(_)
Made(S) ==
    IF S = {} THEN 0
    ELSE LET t == CHOOSE x \in S : TRUE IN calls[t] + Made(S \ {t})

Init ==
    /\ state_and_queue = INCOMPLETE
    /\ value = Uninit
    /\ waiter = [t \in Threads |-> NoWaiter]
    /\ token = [t \in Threads |-> FALSE]
    /\ pc = [t \in Threads |-> "idle"]
    /\ op = [t \in Threads |-> NoCall]
    /\ calls = [t \in Threads |-> 0]
    /\ cur = [t \in Threads |-> INCOMPLETE]
    /\ wq = [t \in Threads |-> NoWq]
    /\ res = [t \in Threads |-> "ok"]
    /\ ran = [t \in Threads |-> FALSE]
    /\ ret = [t \in Threads |-> NoRet]
    /\ atCall = [t \in Threads |-> [word |-> INCOMPLETE, value |-> Uninit, attempt |-> 0]]
    /\ init = TRUE
    /\ outer = [t \in Threads |-> NoCall]
    /\ h = NoHist

\* An Outcome in which set reports success whatever became of its value.
OutcomeSetOk(t, kind, v) ==
    CASE op[t].kind = "set" /\ kind = "Ok" -> [kind |-> "SetOk", v |-> ValueOf(t)]
      [] OTHER -> [kind |-> kind, v |-> v]

\* What the call returns to its caller, given what get_or_try_init returned:
\* get -> Some/None (134-141); set -> Ok(()) iff its closure took the value,
\* else Err(value) (185-188); get_or_init, get_or_try_init -> Ok/Err, or the panic.
Outcome(t, kind, v) ==
    CASE op[t].kind = "set" /\ kind = "Ok" ->
             IF ran[t] THEN [kind |-> "SetOk", v |-> ValueOf(t)]
                       ELSE [kind |-> "SetErr", v |-> ValueOf(t)]
      [] OTHER -> [kind |-> kind, v |-> v]

\* The call returns: the frame's locals are gone.
Return(t, kind, v) ==
    /\ ret' = [ret EXCEPT ![t] = Outcome(t, kind, v)]
    /\ pc' = [pc EXCEPT ![t] = "idle"]
    /\ cur' = [cur EXCEPT ![t] = INCOMPLETE]
    /\ wq' = [wq EXCEPT ![t] = NoWq]
    /\ res' = [res EXCEPT ![t] = "ok"]

\* A thread calls get, set, get_or_init or get_or_try_init; each begins with
\* get()'s load (get: 135; the others: the fast path check, 265). The threads
\* are numbered in the order of their first calls.
Begin(t, c, budget) ==
    /\ pc[t] = "idle" /\ outer[t] = NoCall
    /\ Made(Threads) < budget
    /\ \A u \in Threads : u < t => calls[u] > 0
    /\ pc' = [pc EXCEPT ![t] = "get"]
    /\ op' = [op EXCEPT ![t] = c]
    /\ calls' = [calls EXCEPT ![t] = @ + 1]
    /\ ran' = [ran EXCEPT ![t] = FALSE]
    /\ ret' = [ret EXCEPT ![t] = NoRet]
    /\ atCall' = [atCall EXCEPT ![t] = AtCall]
    /\ UNCHANGED <<state_and_queue, value, waiter, token, cur, wq, res, init, outer, h>>

Call(t) == \E c \in GeneralCalls : Begin(t, c, MaxCalls)

\* The same, every call being get_or_init.
CallInit(t) == Begin(t, InitCall, MaxCalls)

\* The same, every call being get_or_try_init with the flaky computation, by
\* one of FailFirst + 1 threads: enough calls for FailFirst failures, the
\* success, and a call after it.
CallFlaky(t) == t <= FailFirst + 1 /\ Begin(t, FlakyCall, FailFirst + 2)

\* The same, every thread making one call, get or get_or_init.
CallQueue(t) == calls[t] = 0 /\ \E c \in QueueCalls : Begin(t, c, NumThreads)

\* A get() that goes on to initialize the cell when it is not COMPLETE.
GetInits(t) ==
    /\ pc[t] = "get"
    /\ pc' = [pc EXCEPT ![t] = IF state_and_queue = COMPLETE THEN "get_unchecked"
                                                             ELSE "ii_load"]
    /\ UNCHANGED <<ret, cur, wq, res>>
    /\ UNCHANGED <<state_and_queue, value, waiter, token, op, calls, ran, atCall, init, outer, h>>

\* SyncLazy::force, called MaxCalls + 1 times in all by MaxCalls threads.
CallLazy(t) == t <= MaxCalls /\ Begin(t, LazyCall, MaxCalls + 1)

\* set(value): get_or_init with the closure that returns value (183-184).
SetCall == [kind |-> "set", f |-> "value"]

\* The calls that race to fill the cell: the first call made is set or
\* get_or_try_init with the flaky computation, every later call is set.
SetCalls == IF Made(Threads) = 0 THEN {SetCall, FlakyCall} ELSE {SetCall}

\* Those calls, MaxCalls + 1 in all by MaxCalls threads: a thread whose call
\* has returned can call again.
CallSet(t) == t <= MaxCalls /\ \E c \in SetCalls : Begin(t, c, MaxCalls + 1)

\* get_or_init with the flaky computation, called MaxCalls + 1 times in all
\* by MaxCalls threads: a thread whose computation panicked can call again.
CallAgain(t) == t <= MaxCalls /\ Begin(t, PanicCall, MaxCalls + 1)

\* get(): is_initialized()'s load. COMPLETE: go on to get_unchecked. Else get
\* returns None; get_or_try_init goes on to initialize -> initialize_inner.
Get(t) ==
    /\ pc[t] = "get"
    /\ IF state_and_queue = COMPLETE
       THEN /\ pc' = [pc EXCEPT ![t] = "get_unchecked"]
            /\ UNCHANGED <<ret, cur, wq, res>>
       ELSE IF op[t].kind = "get"
            THEN Return(t, "None", 0)
            ELSE /\ pc' = [pc EXCEPT ![t] = "ii_load"]
                 /\ UNCHANGED <<ret, cur, wq, res>>
    /\ UNCHANGED <<state_and_queue, value, waiter, token, op, calls, ran, atCall, init, outer, h>>

\* get_unchecked (359-362): the debug assertion, then the read of the slot.
\* A read when the word is not COMPLETE is recorded in h.badRead, a failed
\* assertion in h.readAssert.
ReadSlot(t, kind) ==
    /\ h' = [h EXCEPT !.badRead = @ \/ state_and_queue # COMPLETE \/ value = Uninit,
                      !.readAssert = @ \/ state_and_queue # COMPLETE]
    /\ Return(t, kind, value)
    /\ UNCHANGED <<state_and_queue, value, waiter, token, op, calls, ran, atCall, init, outer>>

\* get(): Some(unsafe { self.get_unchecked() }), which get_or_try_init's fast
\* path returns as Ok(value).
GetUnchecked(t) ==
    /\ pc[t] = "get_unchecked"
    /\ ReadSlot(t, IF op[t].kind = "get" THEN "Some" ELSE "Ok")

\* get_or_try_init 268-272, initialize having returned Ok(()).
InitDone(t) ==
    /\ pc[t] = "init_done"
    /\ ReadSlot(t, "Ok")

\* Match, without the wait: a word that is not INCOMPLETE is taken to be done.
MatchNoWait(w) ==
    IF w = INCOMPLETE THEN "ii_cas" ELSE "init_done"

\* Match, racing: a RUNNING word goes to the CAS like an INCOMPLETE one.
MatchRace(w) ==
    IF w = COMPLETE THEN "init_done" ELSE "ii_cas"

\* Match, without the COMPLETE arm: a COMPLETE word goes to the CAS.
MatchReinit(w) ==
    CASE w = COMPLETE -> "ii_cas"
      [] w = INCOMPLETE -> "ii_cas"
      [] OTHER -> "wait_cas"

\* initialize_inner's match on the word it holds (424-449): COMPLETE returns
\* true, INCOMPLETE goes to the CAS, anything else must be RUNNING and waits.
Match(w) ==
    CASE w = COMPLETE -> "init_done"
      [] w = INCOMPLETE -> "ii_cas"
      [] OTHER -> IF Tag(w) = RUNNING THEN "wait_cas" ELSE "assert"

\* initialize_inner goes where the match sends it; if its assertion (446)
\* fails the thread panics, which is recorded in h.waitAssert.
Dispatch(t, w) ==
    IF Match(w) = "assert"
    THEN /\ Return(t, "Panic", 0)
         /\ h' = [h EXCEPT !.waitAssert = TRUE]
    ELSE /\ pc' = [pc EXCEPT ![t] = Match(w)]
         /\ cur' = [cur EXCEPT ![t] = w]
         /\ UNCHANGED <<ret, wq, res, h>>

\* initialize_inner's load (421), and its reload after wait() (448).
IiLoad(t) ==
    /\ pc[t] = "ii_load"
    /\ Dispatch(t, state_and_queue)
    /\ UNCHANGED <<state_and_queue, value, waiter, token, op, calls, ran, atCall, init, outer>>

\* A compare_and_swap that stores whatever the word is.
CasBlind(old, expected) == TRUE

\* compare_and_swap stores the new word iff the word equals the expected one
\* (427-432, 467-468).
CasWins(old, expected) == old = expected

\* compare_and_swap(state_and_queue, RUNNING) (427-435): the winner holds the
\* WaiterQueue guard with set_state_on_drop_to = INCOMPLETE (436-439).

IiCas(t) ==
    /\ pc[t] = "ii_cas"
    /\ IF CasWins(state_and_queue, cur[t])
       THEN /\ state_and_queue' = RUNNING
            /\ wq' = [wq EXCEPT ![t] = [NoWq EXCEPT !.to = INCOMPLETE]]
            /\ pc' = [pc EXCEPT ![t] = "init"]
            /\ h' = [h EXCEPT !.heir = IF h.pending THEN t ELSE @,
                              !.pending = FALSE]
            /\ UNCHANGED <<cur, ret, res>>
       ELSE /\ Dispatch(t, state_and_queue)
            /\ UNCHANGED state_and_queue
    /\ UNCHANGED <<value, waiter, token, op, calls, ran, atCall, init, outer>>

\* What f can do when it is run: get_or_init's f returns a value or panics
\* (its Err type is !, 225); get_or_try_init's f may also return Err; set's
\* closure returns the value (184); the flaky computation fails while fewer
\* than FailFirst computations have been run; force's closure runs the
\* wrapped computation if SyncLazy.init holds it (569) and panics with
\* "Lazy instance has previously been poisoned" if it does not (570).
Results(t) ==
    CASE op[t].f = "lazy" -> IF init THEN {"ok", "panic"} ELSE {"poisoned"}
      [] op[t].f = "flaky" ->
             IF h.runs >= FailFirst THEN {"ok"}
             ELSE IF op[t].kind = "get_or_init" THEN {"panic"} ELSE {"err"}
      [] op[t].f \in {"value", "returns"} -> {"ok"}
      [] op[t].kind = "get_or_init" -> {"ok", "panic"}
      [] OTHER -> {"ok", "err", "panic"}

\* A take that leaves the wrapped computation in SyncLazy.init.
TakeLeaves(t) == init

\* this.init.take() (568): force's closure leaves None in SyncLazy.init.
Take(t) == IF op[t].f = "lazy" THEN FALSE ELSE init

\* A thread other than t is between its INCOMPLETE -> RUNNING CAS and its
\* swap: t's closure is not the only one that can touch SyncLazy.init.
OtherInitializer(t) ==
    \E u \in Threads \ {t} : pc[u] \in {"init", "write", "drop_swap"}

\* A RunInit with no guard: a computation that fails returns to the caller at
\* once, the WaiterQueue never being dropped.
RunInitNoGuard(t) ==
    /\ pc[t] = "init"
    /\ \E r \in Results(t) :
        /\ h' = [h EXCEPT !.runs = @ + 1,
                          !.fails = @ + (IF r = "ok" THEN 0 ELSE 1),
                          !.produced = IF r = "ok" THEN @ \cup {ValueOf(t)} ELSE @,
                          !.wrapped = @ + (IF op[t].f = "lazy" /\ init THEN 1 ELSE 0),
                          !.takeRace = @ \/ (op[t].f = "lazy" /\ OtherInitializer(t))]
        /\ IF r = "ok"
           THEN /\ pc' = [pc EXCEPT ![t] = "write"]
                /\ UNCHANGED <<ret, cur, wq, res>>
           ELSE Return(t, IF r = "err" THEN "Err" ELSE "Panic", ValueOf(t))
    /\ ran' = [ran EXCEPT ![t] = TRUE]
    /\ init' = Take(t)
    /\ UNCHANGED <<state_and_queue, value, waiter, token, op, calls, atCall, outer>>

\* init() (342-354): f.take().unwrap(), then f(). Ok goes on to write the
\* slot; Err(e) sets res and returns false; a panic unwinds. Either failure
\* leaves set_state_on_drop_to INCOMPLETE and drops the WaiterQueue.
RunInit(t) ==
    /\ pc[t] = "init"
    /\ \E r \in Results(t) :
        /\ res' = [res EXCEPT ![t] = r]
        /\ pc' = [pc EXCEPT ![t] = IF r = "ok" THEN "write" ELSE "drop_swap"]
        /\ h' = [h EXCEPT !.runs = @ + 1,
                          !.fails = @ + (IF r = "ok" THEN 0 ELSE 1),
                          !.produced = IF r = "ok" THEN @ \cup {ValueOf(t)} ELSE @,
                          !.wrapped = @ + (IF op[t].f = "lazy" /\ init THEN 1 ELSE 0),
                          !.takeRace = @ \/ (op[t].f = "lazy" /\ OtherInitializer(t))]
    /\ ran' = [ran EXCEPT ![t] = TRUE]
    /\ init' = Take(t)
    /\ UNCHANGED <<state_and_queue, value, waiter, token, op, calls, cur, wq, ret, atCall, outer>>

\* The value the closure stores: the one f returned.
Stored(t) == ValueOf(t)

\* slot.write(value) (346), then set_state_on_drop_to = COMPLETE (442).
Write(t) ==
    /\ pc[t] = "write"
    /\ value' = Stored(t)
    /\ wq' = [wq EXCEPT ![t].to = COMPLETE]
    /\ pc' = [pc EXCEPT ![t] = "drop_swap"]
    /\ h' = [h EXCEPT !.writes = @ + 1]
    /\ UNCHANGED <<state_and_queue, waiter, token, op, calls, cur, res, ran, ret, atCall, init, outer>>

\* An AfterDrop in which initialize returns Ok(()) whatever init() did: res
\* was never set.
AfterDropOk(t) ==
    /\ pc' = [pc EXCEPT ![t] = "init_done"]
    /\ wq' = [wq EXCEPT ![t] = NoWq]
    /\ UNCHANGED <<ret, cur, res>>

\* WaiterQueue::drop is over: initialize_inner returns success, initialize
\* returns res, and get_or_try_init goes on (Ok), returns Err(e), or the
\* panic reaches the caller.
AfterDrop(t) ==
    CASE res[t] = "ok" ->
             /\ pc' = [pc EXCEPT ![t] = "init_done"]
             /\ wq' = [wq EXCEPT ![t] = NoWq]
             /\ UNCHANGED <<ret, cur, res>>
      [] res[t] = "err" -> Return(t, "Err", ValueOf(t))
      [] res[t] = "poisoned" -> Return(t, "Poisoned", 0)
      [] OTHER -> Return(t, "Panic", 0)

\* A drop that always swaps in INCOMPLETE, and one that always swaps in COMPLETE.
SwapIncomplete(to) == INCOMPLETE
SwapComplete(to) == COMPLETE

\* The word WaiterQueue::drop swaps in: set_state_on_drop_to (403).
SwapTo(to) == to

\* WaiterQueue::drop 402-408: the swap, the assertion (a failure is recorded
\* in h.dropAssert), queue = the old head; the loop test (409). When the
\* attempt failed, h.aborted records the threads queued at the swap, and
\* h.heir the thread that next wins the INCOMPLETE -> RUNNING CAS, until
\* that thread's own swap.

DropSwap(t) ==
    /\ pc[t] = "drop_swap"
    /\ state_and_queue' = SwapTo(wq[t].to)
    /\ h' = IF res[t] = "ok"
            THEN [h EXCEPT !.dropAssert = @ \/ Tag(state_and_queue) # RUNNING,
                           !.aborted = {}, !.heir = Null]
            ELSE [h EXCEPT !.dropAssert = @ \/ Tag(state_and_queue) # RUNNING,
                           !.aborted = Queued(Ptr(state_and_queue)),
                           !.pending = Ptr(state_and_queue) # Null,
                           !.heir = Null]
    /\ IF Ptr(state_and_queue) = Null
       THEN AfterDrop(t)
       ELSE /\ wq' = [wq EXCEPT ![t].queue = Ptr(state_and_queue)]
            /\ pc' = [pc EXCEPT ![t] = "drop_walk"]
            /\ UNCHANGED <<ret, cur, res>>
    /\ UNCHANGED <<value, waiter, token, op, calls, ran, atCall, init, outer>>

\* A walk that does not move on: queue stays at the node just signaled.
DropWalkStay(t) ==
    /\ pc[t] = "drop_walk"
    /\ LET n == Owner(wq[t].queue) IN
        /\ h' = [h EXCEPT !.uaf = @ \/ ~waiter[n].live,
                          !.unwrapNone = @ \/ waiter[n].thread = Null]
        /\ wq' = [wq EXCEPT ![t].thread = waiter[n].thread]
        /\ waiter' = [waiter EXCEPT ![n].thread = Null, ![n].signaled = TRUE]
    /\ pc' = [pc EXCEPT ![t] = "drop_unpark"]
    /\ UNCHANGED <<state_and_queue, value, token, op, calls, cur, res, ran, ret, atCall, init, outer>>

\* WaiterQueue::drop 410-413: read next, take the thread handle, store
\* signaled = true, queue = next. A node that is no longer live, or whose
\* handle is gone, is recorded in h.
DropWalk(t) ==
    /\ pc[t] = "drop_walk"
    /\ LET n == Owner(wq[t].queue) IN
        /\ h' = [h EXCEPT !.uaf = @ \/ ~waiter[n].live,
                          !.unwrapNone = @ \/ waiter[n].thread = Null]
        /\ wq' = [wq EXCEPT ![t].queue = waiter[n].next,
                            ![t].thread = waiter[n].thread]
        /\ waiter' = [waiter EXCEPT ![n].thread = Null, ![n].signaled = TRUE]
    /\ pc' = [pc EXCEPT ![t] = "drop_unpark"]
    /\ UNCHANGED <<state_and_queue, value, token, op, calls, cur, res, ran, ret, atCall, init, outer>>

\* An unpark that wakes nobody.
UnparkLost(tok, thread) == tok

\* thread.unpark(): the thread's park token is set.
Unpark(tok, thread) == [u \in Threads |-> tok[u] \/ u = thread]

\* WaiterQueue::drop 414: thread.unpark(), then the loop test (409).
DropUnpark(t) ==
    /\ pc[t] = "drop_unpark"
    /\ token' = Unpark(token, wq[t].thread)
    /\ IF wq[t].queue = Null
       THEN AfterDrop(t)
       ELSE /\ wq' = [wq EXCEPT ![t].thread = Null]
            /\ pc' = [pc EXCEPT ![t] = "drop_walk"]
            /\ UNCHANGED <<ret, cur, res>>
    /\ UNCHANGED <<state_and_queue, value, waiter, op, calls, ran, atCall, init, outer, h>>

\* wait() 456-471: current_state is RUNNING here; build the node, CAS it in
\* as the head. On failure the node is dropped and the loop starts again with
\* the word seen: not RUNNING returns to initialize_inner's reload (448).
\* h.order lists the threads whose nodes are linked, oldest first.
WaitCas(t) ==
    /\ pc[t] = "wait_cas"
    /\ IF CasWins(state_and_queue, cur[t])
       THEN /\ state_and_queue' = Addr(t) + RUNNING
            /\ waiter' = [waiter EXCEPT ![t] = NewWaiter(t, cur[t])]
            /\ pc' = [pc EXCEPT ![t] = "wait_signaled"]
            /\ h' = [h EXCEPT !.order = Append(@, t)]
            /\ UNCHANGED cur
       ELSE /\ cur' = [cur EXCEPT ![t] = state_and_queue]
            /\ pc' = [pc EXCEPT ![t] =
                        IF Tag(state_and_queue) # RUNNING THEN "ii_load" ELSE "wait_cas"]
            /\ UNCHANGED <<state_and_queue, waiter, h>>
    /\ UNCHANGED <<value, token, op, calls, wq, res, ran, ret, atCall, init, outer>>

\* A wait() that returns whatever the flag is.
WaitNoCheck(t) ==
    /\ pc[t] = "wait_signaled"
    /\ waiter' = [waiter EXCEPT ![t] = NoWaiter]
    /\ pc' = [pc EXCEPT ![t] = "ii_load"]
    /\ UNCHANGED <<state_and_queue, value, token, op, calls, cur, wq, res, ran, ret, atCall, init, outer, h>>

\* wait() 473: node.signaled.load(). true: break, the node goes out of scope
\* and initialize_inner reloads the word; false: park.
WaitSignaled(t) ==
    /\ pc[t] = "wait_signaled"
    /\ IF waiter[t].signaled
       THEN /\ waiter' = [waiter EXCEPT ![t] = NoWaiter]
            /\ pc' = [pc EXCEPT ![t] = "ii_load"]
            /\ h' = [h EXCEPT !.order = SelectSeq(@, LAMBDA u : u # t)]
       ELSE /\ pc' = [pc EXCEPT ![t] = "park"]
            /\ UNCHANGED <<waiter, h>>
    /\ UNCHANGED <<state_and_queue, value, token, op, calls, cur, wq, res, ran, ret, atCall, init, outer>>

\* thread::park() (474) returns when the token is set, consuming it.
Park(t) ==
    /\ pc[t] = "park"
    /\ token[t]
    /\ token' = [token EXCEPT ![t] = FALSE]
    /\ pc' = [pc EXCEPT ![t] = "wait_signaled"]
    /\ UNCHANGED <<state_and_queue, value, waiter, op, calls, cur, wq, res, ran, ret, atCall, init, outer, h>>

\* thread::park() may also return with no token (a spurious wakeup), which
\* is why wait() loops on signaled (473-475).
ParkSpurious(t) ==
    /\ pc[t] = "park"
    /\ ~token[t]
    /\ pc' = [pc EXCEPT ![t] = "wait_signaled"]
    /\ UNCHANGED <<state_and_queue, value, waiter, token, op, calls, cur, wq, res, ran, ret, atCall, init, outer, h>>

\* Reentrant initialization (203-205): the computation t is running as
\* initializer calls get, set, get_or_init or get_or_try_init on the same
\* cell. The outer call's frames stay on the stack below the new call's.
Reenter(t) ==
    /\ pc[t] = "init" /\ outer[t] = NoCall
    /\ \E c \in GeneralCalls : op' = [op EXCEPT ![t] = c]
    /\ outer' = [outer EXCEPT ![t] = op[t]]
    /\ pc' = [pc EXCEPT ![t] = "get"]
    /\ ran' = [ran EXCEPT ![t] = FALSE]
    /\ ret' = [ret EXCEPT ![t] = NoRet]
    /\ atCall' = [atCall EXCEPT ![t] = AtCall]
    /\ UNCHANGED <<state_and_queue, value, waiter, token, calls, cur, wq, res, init, h>>

\* The reentrant call has returned: the computation goes on, its thread
\* still the initializer, holding the guard of 436-439.
Resume(t) ==
    /\ pc[t] = "idle" /\ outer[t] # NoCall
    /\ pc' = [pc EXCEPT ![t] = "init"]
    /\ op' = [op EXCEPT ![t] = outer[t]]
    /\ outer' = [outer EXCEPT ![t] = NoCall]
    /\ wq' = [wq EXCEPT ![t] = [NoWq EXCEPT !.to = INCOMPLETE]]
    /\ UNCHANGED <<state_and_queue, value, waiter, token, calls, cur, res, ran, ret,
                   atCall, init, h>>

\* One step of thread t inside a call.
Step(t) ==
    \/ Get(t)
    \/ GetUnchecked(t)
    \/ InitDone(t)
    \/ IiLoad(t)
    \/ IiCas(t)
    \/ RunInit(t)
    \/ Write(t)
    \/ DropSwap(t)
    \/ DropWalk(t)
    \/ DropUnpark(t)
    \/ WaitCas(t)
    \/ WaitSignaled(t)
    \/ Park(t)

Next == \E t \in Threads : Call(t) \/ Step(t) \/ ParkSpurious(t)

Spec == Init /\ [][Next]_vars

\* A running thread takes its next step: the scheduler starves no thread.
\* A parked thread has no step until it is unparked; a spurious wakeup may
\* happen, and nothing makes it happen.
Fairness == \A t \in Threads : WF_vars(Step(t))

\* Threads that only call get_or_init, with computations that return or panic.
NextInit == \E t \in Threads : CallInit(t) \/ Step(t) \/ ParkSpurious(t)
SpecInit == Init /\ [][NextInit]_vars /\ Fairness

\* Racing threads that call get_or_try_init with the flaky computation, until
\* FailFirst + 2 calls have been made.
NextFlaky == \E t \in Threads : CallFlaky(t) \/ Step(t) \/ ParkSpurious(t)
SpecFlaky ==
    Init /\ [][NextFlaky]_vars /\ Fairness /\ WF_vars(\E t \in Threads : CallFlaky(t))

\* Readers and initializers of one cell, each thread making one call, so that
\* a call can find a queue of waiters.
NextQueue == \E t \in Threads : CallQueue(t) \/ Step(t) \/ ParkSpurious(t)
SpecQueue == Init /\ [][NextQueue]_vars /\ Fairness

\* Threads that share one SyncLazy and call force.
NextLazy == \E t \in Threads : CallLazy(t) \/ Step(t) \/ ParkSpurious(t)
SpecLazy == Init /\ [][NextLazy]_vars /\ Fairness

\* Threads that call get_or_init with computations that may call back into
\* the cell.
NextReentrant ==
    \E t \in Threads :
        CallInit(t) \/ Step(t) \/ ParkSpurious(t) \/ Reenter(t) \/ Resume(t)
SpecReentrant == Init /\ [][NextReentrant]_vars /\ Fairness

\* Threads that call get_or_init and may call again after a panic.
NextRetry == \E t \in Threads : CallAgain(t) \/ Step(t) \/ ParkSpurious(t)
SpecRetry == Init /\ [][NextRetry]_vars /\ Fairness

\* Threads racing to set the cell while others try to initialize it.
NextSet == \E t \in Threads : CallSet(t) \/ Step(t) \/ ParkSpurious(t)
SpecSet == Init /\ [][NextSet]_vars /\ Fairness

----------------------------------------------------------------------------
\* The properties.

\* get_or_init, get_or_try_init or set has returned a value to t.
ReturnedOk(t) == ret[t].kind \in {"Ok", "SetOk", "SetErr"}

\* t is the initializer: it won the INCOMPLETE -> RUNNING CAS and has not yet
\* swapped the word in WaiterQueue::drop.
Initializer(t) == pc[t] \in {"init", "write", "drop_swap"} \/ outer[t] # NoCall

\* t has linked its node and is in wait()'s loop on signaled.
Waiting(t) == pc[t] \in {"wait_signaled", "park"}

\* C1: while no computation has failed, at most one computation has been run,
\* and every get_or_init call that has returned has returned the value that
\* one computation produced, which is the value in the slot.
C1_OneComputation ==
    h.fails = 0 =>
        /\ h.runs <= 1
        /\ \A t \in Threads :
              (op[t].kind = "get_or_init" /\ ret[t].kind = "Ok") =>
                  /\ h.runs = 1
                  /\ h.produced = {ret[t].v}
                  /\ value = ret[t].v

\* Two get_or_init calls began on the empty cell and both have returned: one
\* ran its computation, the other did not.
C1_Witness ==
    \E t, u \in Threads :
        /\ t # u /\ h.fails = 0
        /\ op[t].kind = "get_or_init" /\ op[u].kind = "get_or_init"
        /\ atCall[t].word = INCOMPLETE /\ atCall[u].word = INCOMPLETE
        /\ ret[t].kind = "Ok" /\ ret[u].kind = "Ok"
        /\ ran[t] /\ ~ran[u]

\* C2: at most one thread is between its successful INCOMPLETE -> RUNNING CAS
\* and its swap of the control word.
C2_OneInitializer ==
    Cardinality({t \in Threads : Initializer(t)}) <= 1

\* A thread is the initializer after an earlier attempt failed, while the
\* thread of that attempt is still waking the waiters it detached.
C2_Witness ==
    \E t, u \in Threads :
        /\ t # u /\ h.fails >= 1
        /\ Initializer(t)
        /\ pc[u] \in {"drop_walk", "drop_unpark"}

\* C3 as stated: the slot holds a value iff the tag is COMPLETE.
C3_SlotIffComplete ==
    (value # Uninit) <=> (Tag(state_and_queue) = COMPLETE)

\* C3, amended: the tag is COMPLETE only if the slot holds a value; the slot
\* holds a value only if the tag is COMPLETE, or the tag is RUNNING and the
\* initializer has written the slot and is about to swap COMPLETE in. The
\* slot holds no value while the tag is INCOMPLETE.
C3_SlotWrittenBeforeComplete ==
    /\ Tag(state_and_queue) = COMPLETE => value # Uninit
    /\ Tag(state_and_queue) = INCOMPLETE => value = Uninit
    /\ (value # Uninit /\ Tag(state_and_queue) # COMPLETE) =>
          /\ Tag(state_and_queue) = RUNNING
          /\ \E t \in Threads : pc[t] = "drop_swap" /\ wq[t].to = COMPLETE

\* The slot is written and the tag is still RUNNING, a waiter being queued.
C3_Witness ==
    /\ value # Uninit
    /\ Tag(state_and_queue) = RUNNING
    /\ Ptr(state_and_queue) # Null

\* C4: every read of the slot happens with the control word COMPLETE, the
\* debug assertion before it never fails, and whenever get() has seen
\* COMPLETE or initialize has returned Ok(()) the control word is COMPLETE.
C4_ReadOnlyWhenComplete ==
    /\ ~h.badRead
    /\ ~h.readAssert
    /\ \A t \in Threads :
          pc[t] \in {"get_unchecked", "init_done"} => state_and_queue = COMPLETE

\* initialize has returned Ok(()) to a thread that waited and to one that ran
\* the computation, and a get() has read the slot.
C4_Witness ==
    \E t, u \in Threads :
        /\ ret[t].kind = "Ok" /\ ran[t]
        /\ pc[u] = "init_done" /\ ~ran[u] /\ token[u]

\* One step of the control word's tag.
TagStep ==
    LET a == Tag(state_and_queue)
        b == Tag(state_and_queue')
    IN  /\ a = INCOMPLETE => b \in {INCOMPLETE, RUNNING}
        /\ (a = RUNNING /\ b = INCOMPLETE) =>
              \E t \in Threads :
                  pc[t] = "drop_swap" /\ pc'[t] # "drop_swap"
                  /\ res[t] \in {"err", "panic"}
        /\ (a = RUNNING /\ b = COMPLETE) =>
              \E t \in Threads :
                  pc[t] = "drop_swap" /\ pc'[t] # "drop_swap" /\ res[t] = "ok"
        /\ a = COMPLETE => state_and_queue' = state_and_queue

\* C5: the tag steps only INCOMPLETE -> RUNNING -> {COMPLETE, INCOMPLETE};
\* RUNNING -> INCOMPLETE is the swap of an initializer whose computation
\* failed, and a COMPLETE control word never changes.
C5_TagMonotonic == [][TagStep]_vars

\* The cell is COMPLETE after an attempt that failed, and the thread of the
\* failed attempt has returned since.
C5_Witness ==
    /\ state_and_queue = COMPLETE
    /\ h.fails >= 1
    /\ \E t, u \in Threads :
          /\ ret[t].kind \in {"Err", "Panic"} /\ pc[t] = "idle"
          /\ ret[u].kind = "Ok" /\ ran[u]

\* What C6 says of the calls that have returned: a failure value is returned
\* only by a call whose own computation ran, and is that call's own; a call
\* that returned a value without running its computation found the cell
\* COMPLETE, and one that ran its computation returned and stored its own.
C6_Returns ==
    \A t \in Threads :
        /\ ret[t].kind = "Err" =>
              op[t].kind = "get_or_try_init" /\ ran[t] /\ ret[t].v = ValueOf(t)
        /\ (ret[t].kind = "Ok" /\ ~ran[t]) =>
              /\ state_and_queue = COMPLETE
              /\ ret[t].v = value /\ value # ValueOf(t)
        /\ (ret[t].kind = "Ok" /\ ran[t]) =>
              /\ state_and_queue = COMPLETE
              /\ ret[t].v = value /\ value = ValueOf(t)

\* The swap of an initializer whose computation returned a failure value
\* leaves the cell empty: INCOMPLETE, no queue, the slot unwritten.
C6_Revert ==
    \A t \in Threads :
        (pc[t] = "drop_swap" /\ res[t] = "err" /\ pc'[t] # "drop_swap") =>
            state_and_queue' = INCOMPLETE /\ value' = Uninit

\* C6: when the computation returns a failure value the cell reverts to empty
\* and the failure value goes only to the caller whose computation ran; a
\* thread that was waiting finds the cell COMPLETE or runs its own
\* computation, and a later succeeding get_or_try_init installs its value.
C6_FailureIsTheCallers == []C6_Returns /\ [][C6_Revert]_vars

\* A get_or_try_init failed and returned its failure value; a second one,
\* called while the first was RUNNING, then ran its own computation and
\* returned its own value.
C6_Witness ==
    \E t, u \in Threads :
        /\ t # u
        /\ ret[t].kind = "Err" /\ ret[t].v = ValueOf(t)
        /\ op[u].kind = "get_or_try_init" /\ Tag(atCall[u].word) = RUNNING
        /\ ret[u].kind = "Ok" /\ ran[u] /\ ret[u].v = ValueOf(u)
        /\ state_and_queue = COMPLETE

\* A computation that panics (get_or_init's can fail in no other way) sends
\* its thread into WaiterQueue::drop with set_state_on_drop_to INCOMPLETE; that drop's swap leaves the cell empty;
\* and the call returns the panic.
C7_PanicStep ==
    \A t \in Threads :
        /\ (pc[t] = "init" /\ pc'[t] # "init" /\ h'.fails > h.fails) =>
              /\ res'[t] = "panic"
              /\ pc'[t] = "drop_swap" /\ wq'[t].to = INCOMPLETE
        /\ (pc[t] = "drop_swap" /\ res[t] = "panic" /\ pc'[t] # "drop_swap") =>
              state_and_queue' = INCOMPLETE /\ value' = Uninit
        /\ (res[t] = "panic" /\ pc[t] # "idle" /\ pc'[t] = "idle") =>
              ret'[t].kind = "Panic"

\* u's node is linked and not signaled while an initializer that panicked is
\* about to swap.
C7_QueuedAtPanic(u) ==
    /\ waiter[u].live /\ ~waiter[u].signaled
    /\ \E t \in Threads : pc[t] = "drop_swap" /\ res[t] = "panic"

\* C7: if the computation panics, WaiterQueue::drop still runs: the word goes
\* back to INCOMPLETE with the slot unwritten, the panic reaches the caller,
\* and every thread queued then is signaled and unparked, and leaves wait().
C7_PanicWakesWaiters ==
    /\ [][C7_PanicStep]_vars
    /\ \A u \in Threads : C7_QueuedAtPanic(u) ~> ~waiter[u].live
    /\ \A u \in Threads : Waiting(u) ~> ~Waiting(u)

\* The initializer panicked, swapped, signaled the parked waiter u and is
\* about to unpark it.
C7_Witness ==
    \E t, u \in Threads :
        /\ pc[t] = "drop_unpark" /\ res[t] = "panic" /\ wq[t].thread = u
        /\ pc[u] = "park" /\ waiter[u].signaled
        /\ state_and_queue = INCOMPLETE /\ value = Uninit

\* C8: with the flaky computation and fair scheduling the cell ends up
\* COMPLETE for good, holding the value of the first invocation that succeeds
\* (the one after FailFirst failures), and with every thread back from its
\* calls: no thread stays in wait().
C8_FlakyCompletes ==
    <>[](/\ state_and_queue = COMPLETE
         /\ h.fails = FailFirst /\ h.runs = FailFirst + 1
         /\ h.produced = {value}
         /\ \A t \in Threads : pc[t] = "idle")

\* The computation has failed FailFirst times and then succeeded; a thread
\* that called during a RUNNING attempt has returned the value without
\* running its own computation.
C8_Witness ==
    /\ state_and_queue = COMPLETE
    /\ h.fails = FailFirst /\ FailFirst >= 1
    /\ \E u \in Threads :
          /\ Tag(atCall[u].word) = RUNNING
          /\ ret[u].kind = "Ok" /\ ~ran[u] /\ ret[u].v = value

\* t's set has returned.
SetReturned(t) == op[t].kind = "set" /\ ret[t].kind \in {"SetOk", "SetErr"}

\* C9 as stated: set reports success iff it was called while the cell was
\* empty (called on the INCOMPLETE cell it succeeds, called on the COMPLETE
\* cell it fails).
C9_SetOkIffEmptyAtCall ==
    \A t \in Threads :
        SetReturned(t) =>
            /\ atCall[t].word = INCOMPLETE => ret[t].kind = "SetOk"
            /\ atCall[t].word = COMPLETE => ret[t].kind = "SetErr"

\* C9, amended: set reports success iff its own value is the one stored, and
\* then it was called while the cell was empty; a set called on a cell that
\* holds a value fails and leaves that value; a set that fails returns its
\* own argument.
C9_SetOkIffOwnValueStored ==
    \A t \in Threads :
        SetReturned(t) =>
            /\ ret[t].kind = "SetOk" <=> value = ValueOf(t)
            /\ ret[t].kind = "SetOk" => atCall[t].word # COMPLETE
            /\ atCall[t].word = COMPLETE =>
                  ret[t].kind = "SetErr" /\ value = atCall[t].value
            /\ ret[t].kind = "SetErr" => ret[t].v = ValueOf(t) /\ value # Uninit

\* A set succeeded on the empty cell; a second set, called on the full cell,
\* failed.
C9_Witness ==
    \E t, u \in Threads :
        /\ t # u /\ SetReturned(t) /\ SetReturned(u)
        /\ ret[t].kind = "SetOk" /\ atCall[t].word = INCOMPLETE
        /\ ret[u].kind = "SetErr" /\ atCall[u].word = COMPLETE
        /\ value = ValueOf(t)

\* C10: the slot is written at most once; a call that began when the cell was
\* COMPLETE finds the value the cell held then still in the slot and returns
\* it, get() as Some and the others without running their computation.
C10_ValueInstalledOnce ==
    /\ h.writes <= 1
    /\ \A t \in Threads :
          /\ atCall[t].value # Uninit => value = atCall[t].value
          /\ (atCall[t].word = COMPLETE /\ pc[t] = "idle") =>
                /\ ~ran[t]
                /\ ret[t].kind \in {"Some", "Ok", "SetErr"}
                /\ ret[t].kind \in {"Some", "Ok"} => ret[t].v = value

\* One thread initialized the cell; another, which took no part in that,
\* called get() afterwards and got the value.
C10_Witness ==
    \E t, u \in Threads :
        /\ t # u
        /\ ran[t] /\ ReturnedOk(t) /\ value = ValueOf(t)
        /\ op[u].kind = "get" /\ atCall[u].word = COMPLETE
        /\ ret[u].kind = "Some" /\ ret[u].v = value /\ calls[u] = 1

\* A thread inside get() is at its load or at get_unchecked, has no node and
\* has run nothing, and get() returns Some or None.
C11_GetPc ==
    \A t \in Threads :
        op[t].kind = "get" =>
            /\ pc[t] \in {"idle", "get", "get_unchecked"}
            /\ ~ran[t] /\ ~waiter[t].live
            /\ pc[t] = "idle" => ret[t].kind \in {"Some", "None"}

\* A step of a thread inside get(): the load that sees COMPLETE goes on to
\* read the slot and return Some(value), the load that sees anything else
\* returns None; the cell, the nodes, the park tokens and the record of what
\* has run are as they were.
C11_GetStep ==
    \A t \in Threads :
        (op[t].kind = "get" /\ pc[t] # "idle" /\ pc'[t] # pc[t]) =>
            /\ state_and_queue' = state_and_queue /\ value' = value
            /\ waiter' = waiter /\ token' = token /\ h' = h
            /\ (pc[t] = "get" /\ state_and_queue = COMPLETE) =>
                  pc'[t] = "get_unchecked"
            /\ (pc[t] = "get" /\ state_and_queue # COMPLETE) =>
                  pc'[t] = "idle" /\ ret'[t] = [kind |-> "None", v |-> 0]
            /\ pc[t] = "get_unchecked" =>
                  pc'[t] = "idle" /\ ret'[t] = [kind |-> "Some", v |-> value]

\* C11: get() returns the stored value exactly when its load sees COMPLETE and
\* None otherwise (INCOMPLETE, or RUNNING with any queue); it never parks,
\* never runs a computation, and leaves the control word, the queue and the
\* slot as they are.
C11_GetIsARead == []C11_GetPc /\ [][C11_GetStep]_vars

\* A get() called while the word was RUNNING with a waiter queued has
\* returned None, the word being still what it was.
C11_Witness ==
    \E t \in Threads :
        /\ op[t].kind = "get" /\ ret[t].kind = "None"
        /\ Tag(atCall[t].word) = RUNNING /\ Ptr(atCall[t].word) # Null
        /\ state_and_queue = atCall[t].word

\* What C12 says of every state: the wrapped computation has been run at
\* most once, by a closure that ran while no other thread was initializer,
\* SyncLazy.init is empty exactly when it has been run, and every force that
\* has returned has returned the value that one run produced, which is the
\* value in the slot.
C12_Forced ==
    /\ h.wrapped <= 1
    /\ ~h.takeRace
    /\ init <=> h.wrapped = 0
    /\ \A t \in Threads :
          (op[t].kind = "force" /\ ret[t].kind = "Ok") =>
              /\ h.wrapped = 1
              /\ h.produced = {ret[t].v}
              /\ value = ret[t].v

\* C12: threads that call force concurrently run the wrapped computation
\* exactly once: it is taken by one thread, while that thread is the cell's
\* only initializer, it is run once some thread has called force, and every
\* force that returns a value returns the same one.
C12_ForceRunsOnce ==
    /\ []C12_Forced
    /\ (\E t \in Threads : pc[t] # "idle") ~> (h.wrapped = 1)

\* Two threads have forced the lazy at the same time and have returned: one
\* ran the wrapped computation, the other waited for it.
C12_Witness ==
    \E t, u \in Threads :
        /\ t # u
        /\ op[t].kind = "force" /\ ret[t].kind = "Ok" /\ ran[t]
        /\ op[u].kind = "force" /\ ret[u].kind = "Ok" /\ ~ran[u]
        /\ Tag(atCall[u].word) = RUNNING
        /\ ret[u].v = ret[t].v

\* The wrapped computation was taken and panicked.
Poisoned == h.wrapped >= 1 /\ h.fails >= 1

\* Once the lazy is poisoned the cell is not COMPLETE, the slot is unwritten,
\* and no force has returned a value: a call that has returned has ended in
\* a panic, the wrapped computation's own or "previously poisoned".
C13_NoValue ==
    Poisoned =>
        /\ Tag(state_and_queue) # COMPLETE /\ value = Uninit
        /\ ~init
        /\ \A t \in Threads :
              (pc[t] = "idle" /\ ret[t] # NoRet) =>
                  ret[t].kind \in {"Panic", "Poisoned"}

\* A closure that finds SyncLazy.init empty panics with "previously
\* poisoned", and that panic is what its force call ends in.
C13_PoisonStep ==
    \A t \in Threads :
        /\ (pc[t] = "init" /\ pc'[t] # "init" /\ ~init) =>
              res'[t] = "poisoned" /\ pc'[t] = "drop_swap"
        /\ (res[t] = "poisoned" /\ pc[t] # "idle" /\ pc'[t] = "idle") =>
              ret'[t].kind = "Poisoned"

\* C13: when force finds SyncLazy.init empty and the cell empty, the call
\* ends in the "previously poisoned" panic and returns no value; the cell
\* never becomes COMPLETE afterwards; and every force call in progress or
\* made later, the waiters of the failed attempt included, ends in a panic:
\* none blocks forever (a time comes when every call has returned).
C13_PoisonedForGood ==
    /\ []C13_NoValue
    /\ [][C13_PoisonStep]_vars
    /\ Poisoned ~> (\A t \in Threads : pc[t] = "idle")

\* The wrapped computation panicked; the thread that waited for it, and the
\* thread that ran it and called force again, both ended in "previously
\* poisoned".
C13_Witness ==
    \E t, u \in Threads :
        /\ t # u
        /\ ret[t].kind = "Poisoned" /\ calls[t] = 2
        /\ ret[u].kind = "Poisoned" /\ Tag(atCall[u].word) = RUNNING
        /\ state_and_queue = INCOMPLETE /\ value = Uninit

\* t's computation, running as initializer, has called set, get_or_init or
\* get_or_try_init on the same cell.
Reentered(t) ==
    outer[t] # NoCall /\ op[t].kind \in {"set", "get_or_init", "get_or_try_init"}

\* While t is inside its reentrant call it is on the way to wait() or in it,
\* it has run no second computation and nobody else is initializer, the tag
\* is RUNNING, the slot is unwritten, t's node is not signaled, and no
\* assertion has failed.
C14_Stuck ==
    \A t \in Threads :
        Reentered(t) =>
            /\ pc[t] \in {"get", "ii_load", "wait_cas", "wait_signaled", "park"}
            /\ ~ran[t] /\ ~waiter[t].signaled
            /\ \A u \in Threads \ {t} : ~Initializer(u)
            /\ Tag(state_and_queue) = RUNNING /\ value = Uninit
            /\ ~h.waitAssert /\ ~h.dropAssert /\ ~h.readAssert

\* The reentrant call never returns and no computation runs during it.
C14_StuckStep ==
    \A t \in Threads :
        Reentered(t) => Reentered(t)' /\ op'[t] = op[t] /\ h'.runs = h.runs

\* C14: a computation that, running as initializer, calls set, get_or_init
\* or get_or_try_init on the same cell deadlocks its thread against itself:
\* the thread links its own node and stays in wait() for ever, the tag stays
\* RUNNING, the slot is never written, no second computation runs and no
\* assertion fails.
C14_ReentrantDeadlocks ==
    /\ []C14_Stuck
    /\ [][C14_StuckStep]_vars
    /\ (\E t \in Threads : Reentered(t)) ~>
          [](\E t \in Threads : Reentered(t) /\ Waiting(t) /\ waiter[t].live)

\* The initializer is parked on its own node, which is the head of the
\* queue of the RUNNING word.
C14_Witness ==
    \E t \in Threads :
        /\ Reentered(t) /\ pc[t] = "park"
        /\ waiter[t].live /\ Ptr(state_and_queue) = Addr(t)
        /\ Tag(state_and_queue) = RUNNING

\* C15 as stated: after an attempt that panicked with threads waiting, the
\* thread that next wins the INCOMPLETE -> RUNNING CAS is one of the threads
\* that were waiting.
C15_WaiterInitializes ==
    h.heir # Null => h.heir \in h.aborted

\* The swap of an initializer that panicked leaves the cell empty, and the
\* thread that next wins the CAS won it on an INCOMPLETE word, no other
\* thread being initializer.
C15_Step ==
    \A t \in Threads :
        /\ (pc[t] = "drop_swap" /\ res[t] = "panic" /\ pc'[t] # "drop_swap") =>
              /\ state_and_queue' = INCOMPLETE /\ value' = Uninit
              /\ h'.aborted = Queued(Ptr(state_and_queue))
        /\ (pc[t] = "ii_cas" /\ pc'[t] = "init") =>
              /\ state_and_queue = INCOMPLETE
              /\ \A u \in Threads \ {t} : ~Initializer(u)

\* C15, amended: when the computation panics while threads are waiting, the
\* cell reverts to empty and some thread wins the INCOMPLETE -> RUNNING CAS
\* afterwards and is the one new initializer; it is one of the threads that
\* were waiting or a thread that was not.
C15_NextWinnerInitializes ==
    /\ [][C15_Step]_vars
    /\ [](Cardinality({t \in Threads : Initializer(t)}) <= 1 /\ ~(h.pending /\ h.heir # Null))
    /\ h.pending ~> (h.heir # Null)

\* A thread that was waiting when the computation panicked has become the
\* new initializer.
C15_Witness ==
    /\ h.heir # Null /\ h.heir \in h.aborted
    /\ pc[h.heir] = "init"

\* No waiter is lost: a node that is linked and not signaled is in the queue
\* of the RUNNING control word or in the list some WaiterQueue::drop still
\* has to walk. No wakeup is lost: a thread parked on a signaled node has
\* its park token, or the thread that signaled it is about to unpark it.
C16_Linked ==
    \A u \in Threads :
        /\ (waiter[u].live /\ ~waiter[u].signaled) =>
              \/ Tag(state_and_queue) = RUNNING /\ u \in Queued(Ptr(state_and_queue))
              \/ \E t \in Threads :
                    /\ pc[t] \in {"drop_walk", "drop_unpark"}
                    /\ u \in Queued(wq[t].queue)
        /\ (pc[u] = "park" /\ waiter[u].signaled /\ ~token[u]) =>
              \E t \in Threads : pc[t] = "drop_unpark" /\ wq[t].thread = u

\* C16: no lost wakeup and no lost waiter. In every state each thread whose
\* linked node is not signaled is reachable from the head in the control
\* word or from the detached list being walked, and whenever threads are in
\* wait() a time comes when none is: each returns after the initializer's
\* swap and walk, whether the unpark comes before or after it parks and
\* whether or not park returns spuriously.
C16_NoLostWakeup ==
    /\ []C16_Linked
    /\ (\E u \in Threads : Waiting(u)) ~> (\A u \in Threads : ~Waiting(u))

\* A thread that has linked its node and is about to test the flag has been
\* signaled and unparked already: it is not parked and the token is there.
C16_Witness ==
    \E u \in Threads :
        /\ pc[u] = "wait_signaled" /\ waiter[u].live
        /\ waiter[u].signaled /\ token[u]
        /\ Tag(state_and_queue) # RUNNING

\* WaiterQueue::drop has touched no node that was gone; the node it is about
\* to visit is live and not signaled; and after it has signaled a node it
\* holds the thread handle it took out of it and the next pointer it read
\* before, and through them only nodes that are live and not signaled.
C17_Nodes ==
    /\ ~h.uaf
    /\ \A t \in Threads :
          /\ pc[t] = "drop_walk" =>
                wq[t].queue # Null /\ wq[t].queue # Addr(t)
          /\ pc[t] = "drop_unpark" => wq[t].thread # Null
          /\ pc[t] \in {"drop_walk", "drop_unpark"} =>
                \A n \in Queued(wq[t].queue) :
                    waiter[n].live /\ ~waiter[n].signaled /\ n # wq[t].thread

\* A node goes out of scope only when its thread has seen its flag set, and
\* the unpark after the flag is set writes no node.
C17_Step ==
    \A t \in Threads :
        /\ (waiter[t].live /\ ~waiter'[t].live) =>
              waiter[t].signaled /\ pc[t] = "wait_signaled"
        /\ (pc[t] = "drop_unpark" /\ pc'[t] # "drop_unpark") =>
              waiter' = waiter /\ token'[wq[t].thread]

\* C17: no waiter node is used after it is gone. A thread leaves wait(), and
\* its node goes out of scope, only after it has seen its own signaled flag
\* true; the thread that wakes it touches the node no more once it has set
\* the flag: it goes on with the next pointer read before and wakes through
\* the handle taken out of the node before.
C17_NoUseAfterFree == []C17_Nodes /\ [][C17_Step]_vars

\* A node was signaled and its thread has left wait() already, while the
\* thread that signaled it has still to unpark it.
C17_Witness ==
    \E t, u \in Threads :
        /\ pc[t] = "drop_unpark" /\ wq[t].thread = u
        /\ ~waiter[u].live /\ pc[u] \notin {"wait_signaled", "park"}

\* The place of u's node among the linked nodes, the oldest being first.
Pos(u) == CHOOSE i \in 1..Len(h.order) : h.order[i] = u

\* A list of nodes still to be signaled: each is linked, holds its thread's
\* handle, is not signaled, and was enqueued after the ones behind it.
Unwalked(L) ==
    /\ \A i \in 1..Len(L) :
          /\ waiter[L[i]].live /\ ~waiter[L[i]].signaled
          /\ waiter[L[i]].thread = L[i]
          /\ \E k \in 1..Len(h.order) : h.order[k] = L[i]
    /\ \A i, j \in 1..Len(L) : i < j => Pos(L[i]) > Pos(L[j])

\* The queue of the control word and every list being walked are such
\* lists, and no take of a thread handle has found it gone.
C18_Lists ==
    /\ ~h.unwrapNone
    /\ Unwalked(Queue(Ptr(state_and_queue), NumThreads + 1))
    /\ \A t \in Threads :
          pc[t] \in {"drop_walk", "drop_unpark"} =>
              Unwalked(Queue(wq[t].queue, NumThreads + 1))

\* The steps of WaiterQueue::drop: the swap detaches the whole queue; a visit
\* takes the first node of the list left, whose flag is not set and whose
\* handle is there, sets its flag, and leaves the rest of the list; the
\* unpark wakes the thread of the node just signaled and no other.
C18_WalkStep ==
    \A t \in Threads :
        /\ (pc[t] = "drop_swap" /\ pc'[t] # "drop_swap") =>
              IF Ptr(state_and_queue) = Null
              THEN pc'[t] \notin {"drop_walk", "drop_unpark"}
              ELSE /\ pc'[t] = "drop_walk"
                   /\ wq'[t].queue = Ptr(state_and_queue)
                   /\ Ptr(state_and_queue') = Null
        /\ (pc[t] = "drop_walk" /\ pc'[t] # "drop_walk") =>
              LET L == Queue(wq[t].queue, NumThreads + 1) IN
                  /\ pc'[t] = "drop_unpark" /\ L # <<>>
                  /\ ~waiter[Head(L)].signaled /\ waiter'[Head(L)].signaled
                  /\ waiter[Head(L)].thread = Head(L) /\ wq'[t].thread = Head(L)
                  /\ Queue(wq'[t].queue, NumThreads + 1) = Tail(L)
                  /\ \A u \in Threads \ {Head(L)} : waiter'[u] = waiter[u]
        /\ (pc[t] = "drop_unpark" /\ pc'[t] # "drop_unpark") =>
              /\ token'[wq[t].thread]
              /\ \A u \in Threads \ {wq[t].thread} : token'[u] = token[u]
              /\ pc'[t] = "drop_walk" <=> wq[t].queue # Null

\* C18: the detached list is walked once, from the node enqueued last to
\* the oldest; each node visited still holds its thread handle, has its flag
\* set then and not before, and its thread is woken then; the walk goes on
\* with the rest of the list, so that no node is signaled twice or skipped.
C18_WalkedOnce == []C18_Lists /\ [][C18_WalkStep]_vars

\* A list of two nodes is being walked: the node enqueued last has been
\* signaled and is being woken, the older one is still to be visited.
C18_Witness ==
    \E t, u, v \in Threads :
        /\ pc[t] = "drop_unpark" /\ wq[t].thread = u
        /\ wq[t].queue = Addr(v) /\ waiter[v].next = Null
        /\ waiter[u].live /\ waiter[u].signaled /\ ~waiter[v].signaled
        /\ Len(h.order) = 2 /\ h.order[1] = v /\ h.order[2] = u

\* The control word is INCOMPLETE, COMPLETE, or RUNNING with a queue head
\* that is null or the address of a linked node; a thread about to swap
\* finds the tag RUNNING; and neither assertion has failed.
C19_Word ==
    /\ \/ state_and_queue = INCOMPLETE
       \/ state_and_queue = COMPLETE
       \/ /\ Tag(state_and_queue) = RUNNING
          /\ \/ Ptr(state_and_queue) = Null
             \/ \E u \in Threads :
                   Ptr(state_and_queue) = Addr(u) /\ waiter[u].live
    /\ \A t \in Threads : pc[t] = "drop_swap" => Tag(state_and_queue) = RUNNING
    /\ ~h.dropAssert /\ ~h.waitAssert

\* The swap: the tag is RUNNING, the new word is the bare final state
\* (COMPLETE if the slot was written, else INCOMPLETE), and the queue the
\* word held is the list the drop goes on to walk.
C19_SwapStep ==
    \A t \in Threads :
        (pc[t] = "drop_swap" /\ pc'[t] # "drop_swap") =>
            /\ Tag(state_and_queue) = RUNNING
            /\ state_and_queue' = (IF res[t] = "ok" THEN COMPLETE ELSE INCOMPLETE)
            /\ Ptr(state_and_queue) # Null =>
                  pc'[t] = "drop_walk" /\ wq'[t].queue = Ptr(state_and_queue)

\* C19: the control word is always INCOMPLETE, COMPLETE, or RUNNING with a
\* queue head; the initializer's one swap puts a bare final state in its
\* place and detaches the whole queue, the tag being RUNNING at the swap, so
\* that the assertion in WaiterQueue::drop and the one in the waiting branch
\* of initialize_inner never fail.
C19_WordWellFormed == []C19_Word /\ [][C19_SwapStep]_vars

\* The swap has put COMPLETE in place of a RUNNING word with a queue, and the
\* detached list is still to be walked.
C19_Witness ==
    \E t \in Threads :
        /\ pc[t] = "drop_walk" /\ wq[t].queue # Null
        /\ state_and_queue = COMPLETE /\ ~h.dropAssert

\* The threads in wait()'s loop on signaled are the threads that have a
\* node; a thread at the link CAS has none and holds a RUNNING word; and the
\* queue of the control word and the lists being walked end in null without
\* meeting a node twice.
C20_Queues ==
    /\ \A t \in Threads :
          /\ waiter[t].live <=> pc[t] \in {"wait_signaled", "park"}
          /\ pc[t] = "wait_cas" => Tag(cur[t]) = RUNNING
    /\ \A p \in {Ptr(state_and_queue)} \cup {wq[t].queue : t \in Threads} :
          LET L == Queue(p, NumThreads + 1) IN
              /\ Len(L) <= NumThreads
              /\ \A i, j \in 1..Len(L) : i # j => L[i] # L[j]

\* The steps of a thread in wait() and back from it. The link CAS succeeds
\* iff the word is the one last seen: then the tag is RUNNING, the node's
\* next is the head replaced and the node is the new head; if it fails the
\* word and the nodes are untouched and the thread goes on with the word it
\* found, retrying if the tag is RUNNING and returning to initialize_inner's
\* reload if not. The reload sends it to the slot if COMPLETE, to the
\* INCOMPLETE -> RUNNING CAS if INCOMPLETE. A thread parks only from the
\* loop on signaled, with its node linked.
C20_LinkStep ==
    \A t \in Threads :
        /\ (pc[t] = "wait_cas" /\ (pc'[t] # pc[t] \/ cur'[t] # cur[t])) =>
              IF state_and_queue = cur[t]
              THEN /\ Tag(state_and_queue) = RUNNING
                   /\ state_and_queue' = Addr(t) + RUNNING
                   /\ waiter'[t].live /\ waiter'[t].next = Ptr(state_and_queue)
                   /\ \A u \in Threads \ {t} : waiter'[u] = waiter[u]
                   /\ pc'[t] = "wait_signaled"
              ELSE /\ state_and_queue' = state_and_queue /\ waiter' = waiter
                   /\ cur'[t] = state_and_queue
                   /\ pc'[t] = (IF Tag(state_and_queue) = RUNNING
                                THEN "wait_cas" ELSE "ii_load")
        /\ (pc[t] = "ii_load" /\ pc'[t] # pc[t]) =>
              /\ state_and_queue = COMPLETE => pc'[t] = "init_done"
              /\ state_and_queue = INCOMPLETE => pc'[t] = "ii_cas"
              /\ Tag(state_and_queue) = RUNNING => pc'[t] = "wait_cas"
        /\ (pc[t] # "park" /\ pc'[t] = "park") =>
              pc[t] = "wait_signaled" /\ waiter[t].live

SetDuringAttempt(t) == op[t].kind = "set" /\ atCall[t].attempt # 0

\* C21, what holds of every set in every state: a set that has returned
\* reports success iff its closure ran, iff its own value is the one in the
\* slot, and a set that fails returns the value it was given, the slot holding
\* another; at most one set has succeeded. A set that began while another
\* thread's attempt was under way is still in its call, and has neither become
\* the initializer nor run its closure, for as long as that attempt is not
\* over; if that attempt succeeded the set never runs its closure and
\* returns Err; its closure runs only if that attempt failed.
C21_Sets ==
    /\ Cardinality({t \in Threads : op[t].kind = "set" /\ ret[t].kind = "SetOk"}) <= 1
    /\ \A t \in Threads :
          /\ SetReturned(t) =>
                /\ ret[t].kind = "SetOk" <=> ran[t]
                /\ ret[t].kind = "SetOk" => h.writes = 1
                /\ ret[t].kind = "SetOk" <=> value = ValueOf(t)
                /\ ret[t].v = ValueOf(t)
                /\ ret[t].kind = "SetErr" => value # Uninit
          /\ SetDuringAttempt(t) =>
                /\ Finished < atCall[t].attempt =>
                      pc[t] # "idle" /\ ~Initializer(t) /\ ~ran[t]
                /\ (Finished >= atCall[t].attempt /\ Failed < atCall[t].attempt) =>
                      /\ ~Initializer(t) /\ ~ran[t]
                      /\ pc[t] = "idle" => ret[t].kind = "SetErr"
                /\ ran[t] => Failed >= atCall[t].attempt

\* C21: under concurrency set succeeds iff its own value is the one stored,
\* at most one of the racing sets succeeds and every other gets its value
\* back, and a set issued while another thread's attempt is RUNNING waits for
\* that attempt to be over, failing if it succeeded, and then returns.
C21_SetUnderConcurrency ==
    /\ []C21_Sets
    /\ (\E t \in Threads : SetDuringAttempt(t) /\ pc[t] # "idle")
           ~> (\A t \in Threads : pc[t] = "idle")

\* The first attempt, get_or_try_init's, was RUNNING when t's set was issued;
\* it failed and t installed its value and succeeded. u's set was issued
\* while t's attempt, the second, was RUNNING, and got back the value it
\* supplied.
C21_Witness ==
    \E t, u \in Threads :
        /\ t # u /\ SetDuringAttempt(t) /\ SetDuringAttempt(u)
        /\ atCall[t].attempt = 1 /\ atCall[u].attempt = 2
        /\ h.fails = 1 /\ Failed = 1 /\ Finished = 2
        /\ ret[t].kind = "SetOk" /\ value = ValueOf(t)
        /\ ret[u].kind = "SetErr" /\ ret[u].v = ValueOf(u) /\ value # ValueOf(u)
====
